---- MODULE Spec2Model ----
(***************************************************************************)
(* A model of AsyncLog (simp-lee/AsyncLog): producers calling Logger.log,  *)
(* the buffered LogChannel, the processLogs worker, the file-handle cache  *)
(* of writeFile with its capacity eviction (cleanupFileHandles), the       *)
(* periodic idle reclaimer (cleanupUnusedFileHandles) and Close.           *)
(*                                                                         *)
(* Time is counted in periods of the cleanup ticker (10 minutes): the      *)
(* clock advances one period at a time and every advance offers one tick   *)
(* to the reclaimer.  Two calls of time.Now() inside one period return     *)
(* equal timestamps.                                                       *)
(***************************************************************************)
EXTENDS Integers, Sequences, FiniteSets, TLC

\* ---------------------------------------------------------------- constants

LogLevelTrace == 0
LogLevelDebug == 1
LogLevelInfo == 2
LogLevelWarning == 3
LogLevelError == 4
LogLevelFatal == 5

LogLevel == LogLevelTrace..LogLevelFatal

DefaultBufferSize == 100
DefaultFileName == "default.log"
DefaultMaxFileHandles == 10
\* 30 minutes, in ticker periods
DefaultUnusedFileHandleThreshold == 3
\* 10 minutes: the unit of time
DefaultCleanupTicker == 1

\* ------------------------------------------------------------------- bounds

\* producers of the pipeline specifications
NumProducers == 2
\* log calls in a run of the cache specification
MaxCalls == 3
\* log calls in a run of the shutdown specification
CloseCalls == 3
\* log calls in a run of the routing specification
RouteCalls == 2
\* log calls in a run of the pipeline specification
PipeCalls == 3
\* log calls in a run of the fair pipeline specification
LiveCalls == 4
\* clock periods in a run of the cache specification
MaxTime == 4
\* clock periods in a run of the shutdown specification
CloseTime == 1
\* Close calls in a run of the shutdown specification
MaxCloses == 2
\* opens and writes the operating system fails in a run
MaxFaults == 1
\* largest buffer size and handle limit given as options
MaxOption == 2
\* log calls in a run of the construction specification
NewCalls == 2
\* log calls in a run of the lifecycle specification
StopCalls == 2

Producers == 1..NumProducers

\* destination paths
Paths == {"default.log", "b.log", "c.log"}

\* the nil *os.File
Nil == 0

\* the empty string of a message that was not rendered
NotRendered == <<>>

\* ------------------------------------------------------------- construction

SetBufferSize(size) == [opt |-> "SetBufferSize", arg |-> size]
SetMaxFileHandles(n) == [opt |-> "SetMaxFileHandles", arg |-> n]
SetFileLevel(level) == [opt |-> "SetFileLevel", arg |-> level]
SetConsoleLevel(level) == [opt |-> "SetConsoleLevel", arg |-> level]
EnableFileOutput(enable) == [opt |-> "EnableFileOutput", arg |-> enable]
EnableConsoleOutput(enable) == [opt |-> "EnableConsoleOutput", arg |-> enable]

\* the Logger literal of NewLogger, before any option is applied
DefaultLogger ==
  [ bufferSize      |-> DefaultBufferSize,
    FileLevel       |-> LogLevelInfo,
    ConsoleLevel    |-> LogLevelDebug,
    DefaultFileName |-> DefaultFileName,
    OutputToFile    |-> TRUE,
    OutputToConsole |-> TRUE,
    maxFileHandles  |-> DefaultMaxFileHandles ]

\* one LoggerOption applied to logger lg: [err, lg]
ApplyOption(lg, o) ==
  CASE o.opt = "SetBufferSize" ->
         IF o.arg <= 0 THEN [err |-> TRUE, lg |-> lg]
         ELSE [err |-> FALSE, lg |-> [lg EXCEPT !.bufferSize = o.arg]]
    [] o.opt = "SetMaxFileHandles" ->
         IF o.arg <= 0 THEN [err |-> TRUE, lg |-> lg]
         ELSE [err |-> FALSE, lg |-> [lg EXCEPT !.maxFileHandles = o.arg]]
    [] o.opt = "SetFileLevel" ->
         [err |-> FALSE, lg |-> [lg EXCEPT !.FileLevel = o.arg]]
    [] o.opt = "SetConsoleLevel" ->
         [err |-> FALSE, lg |-> [lg EXCEPT !.ConsoleLevel = o.arg]]
    [] o.opt = "EnableFileOutput" ->
         [err |-> FALSE, lg |-> [lg EXCEPT !.OutputToFile = o.arg]]
    [] o.opt = "EnableConsoleOutput" ->
         [err |-> FALSE, lg |-> [lg EXCEPT !.OutputToConsole = o.arg]]

RECURSIVE ApplyOptions(_, _)
\* the option loop of NewLogger: stops at the first option that fails
ApplyOptions(lg, opts) ==
  IF opts = <<>> THEN [err |-> FALSE, lg |-> lg]
  ELSE LET r == ApplyOption(lg, Head(opts))
       IN  IF r.err THEN r ELSE ApplyOptions(r.lg, Tail(opts))

\* mutant of NewLogger: the goroutines started before the options are applied
NewLogger_StartFirst(opts) ==
  LET r == ApplyOptions(DefaultLogger, opts)
  IN  IF r.err
      THEN [err |-> TRUE, lg |-> DefaultLogger, reclaimers |-> 1, workers |-> 1]
      ELSE [err |-> FALSE, lg |-> r.lg, reclaimers |-> 1, workers |-> 1]

\* NewLogger(opts...): the logger (or the error) and the tasks it started
NewLogger(opts) ==
  LET r == ApplyOptions(DefaultLogger, opts)
  IN  IF r.err
      THEN [err |-> TRUE, lg |-> DefaultLogger, reclaimers |-> 0, workers |-> 0]
      ELSE [err |-> FALSE, lg |-> r.lg, reclaimers |-> 1, workers |-> 1]

\* -------------------------------------------------------------------- state

VARIABLES
  options,         \* history: the options NewLogger was called with
  l,               \* the Logger's configuration fields
  constructed,     \* NewLogger returned a logger (not an error)
  tasks,           \* goroutines NewLogger started: [workers, reclaimers]
  now,             \* the clock, in ticker periods
  tickC,           \* cleanupTicker.C holds a tick
  pc,              \* producer -> "idle" | "blocked" (parked in the channel send)
  pending,         \* producer -> the LogMessage its blocked send carries
  hist,            \* producer -> the log calls it made: <<[level, file]>>
  LogChannel,      \* the channel's buffer
  sendq,           \* producers parked on the full channel, in arrival order
  wpc,             \* worker: "recv" | "wf_lock" | "wf_evict" | "wf_body"
  cur,             \* the LogMessage the worker holds
  fileMutex,       \* "" | "worker" | "reclaimer" | "closer"
  fileHandles,     \* path -> handle (an index of files) or Nil
  fileAccessTimes, \* path -> time of the last write
  files,           \* every *os.File ever opened: [path, flags, pos, closed, closeCalls]
  disk,            \* the files that exist: path -> lines
  console,         \* the lines printed to the console
  faults,          \* opens and writes the operating system has failed
  rpc,             \* reclaimer: "wait" | "body"
  cpc,             \* caller of Close: "idle" | "body"
  closesDone,      \* Close calls that returned
  closeSnap,       \* history: enqLog when the running Close was called
  enqLog,          \* history: ids in the order they entered the channel
  deqLog,          \* history: ids in the order the worker received them
  fileCalls,       \* history: ids the worker called writeFile for
  writeLog,        \* history: the writeFile calls that returned: <<[file, at, ok]>>
  reclaimed        \* history: paths the reclaimer removed, not cached again since

vars == << options, l, constructed, tasks, now, tickC, pc, pending, hist, LogChannel, sendq,
           wpc, cur, fileMutex, fileHandles, fileAccessTimes, files, disk, console,
           faults, rpc, cpc, closesDone, closeSnap, enqLog, deqLog, fileCalls, writeLog,
           reclaimed >>

prodVars == << pc, pending, hist, sendq >>
cacheVars == << fileHandles, fileAccessTimes, files, disk, faults >>
closeVars == << cpc, closesDone, closeSnap >>
cfgVars == << options, l, constructed, tasks >>
histVars == << enqLog, deqLog, fileCalls, writeLog, reclaimed >>

\* the zero LogMessage (id is history: <<producer, number of the call>>)
NoMessage == [id |-> <<0, 0>>, Level |-> 0, File |-> "", FileMessage |-> NotRendered,
              ConsoleMessage |-> NotRendered]

\* the state NewLogger(opts...) leaves
InitWith(opts) ==
  LET r == NewLogger(opts)
  IN  /\ options = opts
      /\ l = r.lg
      /\ constructed = ~r.err
      /\ tasks = [workers |-> r.workers, reclaimers |-> r.reclaimers]
      /\ now = 0
      /\ tickC = FALSE
      /\ pc = [p \in Producers |-> "idle"]
      /\ pending = [p \in Producers |-> NoMessage]
      /\ hist = [p \in Producers |-> <<>>]
      /\ LogChannel = <<>>
      /\ sendq = <<>>
      /\ wpc = "recv"
      /\ cur = NoMessage
      /\ fileMutex = ""
      /\ fileHandles = [f \in {} |-> Nil]
      /\ fileAccessTimes = [f \in {} |-> 0]
      /\ files = <<>>
      /\ disk = [f \in {} |-> <<>>]
      /\ console = <<>>
      /\ faults = 0
      /\ rpc = "wait"
      /\ cpc = "idle"
      /\ closesDone = 0
      /\ closeSnap = <<>>
      /\ enqLog = <<>>
      /\ deqLog = <<>>
      /\ fileCalls = {}
      /\ writeLog = <<>>
      /\ reclaimed = {}

\* ---------------------------------------------------------------- producers

SetLogFile(file) == [opt |-> "SetLogFile", arg |-> file]

RECURSIVE ApplyLogOptions(_, _)
\* the option loop of log: each LogOption in order, the last SetLogFile wins
ApplyLogOptions(file, opts) ==
  IF opts = <<>> THEN file ELSE ApplyLogOptions(Head(opts).arg, Tail(opts))

\* the rendered texts, identified by the event they render
prepareFileMessage(id) == <<"file", id[1], id[2]>>
prepareConsoleMessage(id) == <<"console", id[1], id[2]>>

\* mutant of ChanSend: the stack discipline, a new message goes to the front
ChanSend_Push(p, msg) ==
  IF Len(LogChannel) < l.bufferSize
  THEN /\ LogChannel' = <<msg>> \o LogChannel
       /\ enqLog' = Append(enqLog, msg.id)
       /\ UNCHANGED << pc, pending, sendq >>
  ELSE /\ pc' = [pc EXCEPT ![p] = "blocked"]
       /\ pending' = [pending EXCEPT ![p] = msg]
       /\ sendq' = Append(sendq, p)
       /\ UNCHANGED << LogChannel, enqLog >>

\* mutant of ChanSend: the room check off by one
ChanSend_OffByOne(p, msg) ==
  IF Len(LogChannel) <= l.bufferSize
  THEN /\ LogChannel' = Append(LogChannel, msg)
       /\ enqLog' = Append(enqLog, msg.id)
       /\ UNCHANGED << pc, pending, sendq >>
  ELSE /\ pc' = [pc EXCEPT ![p] = "blocked"]
       /\ pending' = [pending EXCEPT ![p] = msg]
       /\ sendq' = Append(sendq, p)
       /\ UNCHANGED << LogChannel, enqLog >>

\* l.LogChannel <- msg by producer p: into the buffer when it has room,
\* otherwise p parks on the channel's send queue until a receive makes room
ChanSend(p, msg) ==
  IF Len(LogChannel) < l.bufferSize
  THEN /\ LogChannel' = Append(LogChannel, msg)
       /\ enqLog' = Append(enqLog, msg.id)
       /\ UNCHANGED << pc, pending, sendq >>
  ELSE /\ pc' = [pc EXCEPT ![p] = "blocked"]
       /\ pending' = [pending EXCEPT ![p] = msg]
       /\ sendq' = Append(sendq, p)
       /\ UNCHANGED << LogChannel, enqLog >>

\* mutant of FastReject: below either threshold
FastReject_Either(level) == level < l.FileLevel \/ level < l.ConsoleLevel

\* whether log returns at once: the event is below both thresholds
FastReject(level) == level < l.FileLevel /\ level < l.ConsoleLevel

\* Logger.log(level, message, opts...) called by producer p
Log(p, level, opts) ==
  /\ constructed
  /\ pc[p] = "idle"
  /\ hist' = [hist EXCEPT ![p] = Append(@, [level |-> level,
                                   file |-> ApplyLogOptions(l.DefaultFileName, opts)])]
  /\ IF FastReject(level)
     THEN UNCHANGED << pc, pending, sendq, LogChannel, enqLog >>
     ELSE LET id == <<p, Len(hist[p]) + 1>>
              fileMessage ==
                IF level >= l.FileLevel THEN prepareFileMessage(id) ELSE NotRendered
              consoleMessage ==
                IF level >= l.ConsoleLevel THEN prepareConsoleMessage(id) ELSE NotRendered
          IN  ChanSend(p, [id |-> id, Level |-> level,
                           File |-> ApplyLogOptions(l.DefaultFileName, opts),
                           FileMessage |-> fileMessage,
                           ConsoleMessage |-> consoleMessage])
  /\ UNCHANGED << cfgVars, now, tickC, wpc, cur, fileMutex, cacheVars, console, rpc,
                  closeVars, deqLog, fileCalls, writeLog, reclaimed >>

\* ------------------------------------------------------------------- worker

\* the worker sends the received message to the file sink
ToFile(msg) == l.OutputToFile /\ msg.Level >= l.FileLevel

\* mutant of ToConsole: the console gated by the file threshold
ToConsole_FileLevel(msg) == l.OutputToConsole /\ msg.Level >= l.FileLevel

\* the worker sends the received message to the console sink
ToConsole(msg) == l.OutputToConsole /\ msg.Level >= l.ConsoleLevel

\* the console after the worker's console step for msg
ConsoleSink(msg) ==
  IF ToConsole(msg) THEN Append(console, msg.ConsoleMessage) ELSE console

\* which element of a non-empty buffer a receive takes
ChanHead(buf) == Head(buf)

\* the buffer after the receive
ChanRest(buf) == Tail(buf)

\* processLogs: receive the next message from LogChannel (a parked sender's
\* message takes the freed slot); call writeFile for it, or, when it does not
\* go to the file sink, finish the iteration with the console sink
Recv ==
  /\ tasks.workers >= 1
  /\ wpc = "recv"
  /\ LogChannel # <<>>
  /\ LET msg == ChanHead(LogChannel)
     IN  /\ deqLog' = Append(deqLog, msg.id)
         /\ IF ToFile(msg)
            THEN /\ cur' = [msg EXCEPT !.File =
                              IF msg.File = "" THEN l.DefaultFileName ELSE msg.File]
                 /\ fileCalls' = fileCalls \cup {msg.id}
                 /\ wpc' = "wf_lock"
                 /\ UNCHANGED console
            ELSE /\ console' = ConsoleSink(msg)
                 /\ UNCHANGED << cur, wpc, fileCalls >>
  /\ IF sendq # <<>>
     THEN LET p == Head(sendq)
          IN  /\ LogChannel' = Append(ChanRest(LogChannel), pending[p])
              /\ enqLog' = Append(enqLog, pending[p].id)
              /\ sendq' = Tail(sendq)
              /\ pc' = [pc EXCEPT ![p] = "idle"]
              /\ pending' = [pending EXCEPT ![p] = NoMessage]
     ELSE /\ LogChannel' = ChanRest(LogChannel)
          /\ UNCHANGED << enqLog, sendq, pc, pending >>
  /\ UNCHANGED << cfgVars, now, tickC, hist, fileMutex, cacheVars, rpc, closeVars,
                  writeLog, reclaimed >>

\* mutant of WfLock: writeFile without the capacity check
WfLock_NoEvict ==
  /\ wpc = "wf_lock"
  /\ fileMutex = ""
  /\ fileMutex' = "worker"
  /\ wpc' = "wf_body"
  /\ UNCHANGED << cfgVars, now, tickC, prodVars, LogChannel, cur, cacheVars, console,
                  rpc, closeVars, histVars >>

\* writeFile: l.fileMutex.Lock(), then the capacity check
WfLock ==
  /\ wpc = "wf_lock"
  /\ fileMutex = ""
  /\ fileMutex' = "worker"
  /\ wpc' = IF Cardinality(DOMAIN fileHandles) > l.maxFileHandles
            THEN "wf_evict" ELSE "wf_body"
  /\ UNCHANGED << cfgVars, now, tickC, prodVars, LogChannel, cur, cacheVars, console,
                  rpc, closeVars, histVars >>

\* file.Close() on handle h of the table fs (on the nil handle: an error, no effect)
CloseFile(fs, h) ==
  IF h = Nil THEN fs
  ELSE [fs EXCEPT ![h].closed = TRUE, ![h].closeCalls = @ + 1]

\* map m without key k
Delete(m, k) == [x \in DOMAIN m \ {k} |-> m[x]]

\* map m with m[k] = v
Store(m, k, v) == [x \in DOMAIN m \cup {k} |-> IF x = k THEN v ELSE m[x]]

\* mutant of OldestFiles: oldestTime is not lowered, any entry before t is taken
OldestFiles_Any(times, t) ==
  LET before == {f \in DOMAIN times : times[f] < t}
  IN  IF before = {} THEN {""} ELSE before

\* the values oldestFile can have after the range loop of cleanupFileHandles:
\* the first visited of the entries with the least time before t, "" if none
OldestFiles(times, t) ==
  LET before == {f \in DOMAIN times : times[f] < t}
  IN  IF before = {} THEN {""}
      ELSE {f \in before : \A g \in before : times[f] <= times[g]}

\* cleanupFileHandles: one iteration of its outer loop
WfEvict ==
  /\ wpc = "wf_evict"
  /\ \E oldestFile \in OldestFiles(fileAccessTimes, now) :
       IF oldestFile # "" /\ oldestFile \in DOMAIN fileHandles
       THEN /\ files' = CloseFile(files, fileHandles[oldestFile])
            /\ fileHandles' = Delete(fileHandles, oldestFile)
            /\ fileAccessTimes' = Delete(fileAccessTimes, oldestFile)
            /\ wpc' = IF Cardinality(DOMAIN fileHandles) - 1 > l.maxFileHandles
                      THEN "wf_evict" ELSE "wf_body"
       ELSE UNCHANGED << files, fileHandles, fileAccessTimes, wpc >>
  /\ UNCHANGED << cfgVars, now, tickC, prodVars, LogChannel, cur, fileMutex, disk,
                  faults, console, rpc, closeVars, histVars >>

\* the flags writeFile opens a log file with
OpenFlags == {"O_APPEND", "O_CREATE", "O_WRONLY"}

\* os.OpenFile can succeed: the file exists or is created
CanOpen(d, f, flags) == f \in DOMAIN d \/ "O_CREATE" \in flags

\* the files on disk after os.OpenFile(f, flags) succeeded
OpenFile(d, f, flags) ==
  IF f \notin DOMAIN d \/ "O_TRUNC" \in flags THEN Store(d, f, <<>>) ELSE d

\* the lines of a file after a handle [flags, pos] wrote one more line
WriteLine(lines, h, line) ==
  IF "O_APPEND" \in h.flags \/ h.pos >= Len(lines)
  THEN Append(lines, line)
  ELSE [lines EXCEPT ![h.pos + 1] = line]

\* the lookup of writeFile finds a usable handle: file, ok := fileHandles[filename]
\* with ok and file # nil
Cached(handles, filename) == filename \in DOMAIN handles /\ handles[filename] # Nil

\* mutant of Invalidate: the failed handle stays in the cache
Invalidate_Keep(handles, filename, file) == Store(handles, filename, file)

\* mutant of Invalidate: the entry of the failed handle is deleted
Invalidate_Delete(handles, filename, file) == Delete(handles, filename)

\* the handle map after a failed write through file: fileHandles[filename] = nil
Invalidate(handles, filename, file) == Store(handles, filename, Nil)

\* writeFile after the capacity check: look the handle up or open it, refresh
\* the access time, write the line, unlock; then the rest of the worker's
\* iteration, the console sink.  openOk, writeOk: the operating system lets
\* the open, the write succeed
WfBody(openOk, writeOk) ==
  /\ wpc = "wf_body"
  /\ LET filename == cur.File
         cached == Cached(fileHandles, filename)
     IN  IF ~cached /\ ~(openOk /\ CanOpen(disk, filename, OpenFlags))
         THEN /\ faults' = faults + 1
              /\ writeLog' = Append(writeLog, [file |-> filename, at |-> now, ok |-> FALSE])
              /\ UNCHANGED << fileHandles, fileAccessTimes, files, disk, reclaimed >>
         ELSE LET file == IF cached THEN fileHandles[filename] ELSE Len(files) + 1
                  files1 == IF cached THEN files
                            ELSE Append(files, [path |-> filename, flags |-> OpenFlags,
                                                pos |-> 0, closed |-> FALSE,
                                                closeCalls |-> 0])
                  disk1 == IF cached THEN disk ELSE OpenFile(disk, filename, OpenFlags)
              IN  /\ fileAccessTimes' = Store(fileAccessTimes, filename, now)
                  /\ reclaimed' = reclaimed \ {filename}
                  /\ writeLog' = Append(writeLog, [file |-> filename, at |-> now,
                                                   ok |-> writeOk /\ ~files1[file].closed])
                  /\ IF writeOk /\ ~files1[file].closed
                     THEN /\ fileHandles' = Store(fileHandles, filename, file)
                          /\ disk' = [disk1 EXCEPT ![filename] =
                                        WriteLine(@, files1[file], cur.FileMessage)]
                          /\ files' = [files1 EXCEPT ![file].pos = @ + 1]
                          /\ UNCHANGED faults
                     ELSE /\ fileHandles' = Invalidate(fileHandles, filename, file)
                          /\ disk' = disk1
                          /\ files' = files1
                          /\ faults' = IF writeOk THEN faults ELSE faults + 1
  /\ fileMutex' = ""
  /\ console' = ConsoleSink(cur)
  /\ wpc' = "recv"
  /\ cur' = NoMessage
  /\ UNCHANGED << cfgVars, now, tickC, prodVars, LogChannel, rpc, closeVars, enqLog,
                  deqLog, fileCalls >>

\* ---------------------------------------------------------------- reclaimer

\* one ticker period passes: the ticker offers a tick (dropped if one waits)
Tick ==
  /\ constructed
  /\ now' = now + 1
  /\ tickC' = (tasks.reclaimers >= 1)
  /\ UNCHANGED << cfgVars, prodVars, LogChannel, wpc, cur, fileMutex, cacheVars,
                  console, rpc, closeVars, histVars >>

\* mutant of RLock: the reclaimer enters its pass without waiting for the lock
RLock_NoLock ==
  /\ tasks.reclaimers >= 1
  /\ rpc = "wait"
  /\ tickC
  /\ tickC' = FALSE
  /\ fileMutex' = "reclaimer"
  /\ rpc' = "body"
  /\ UNCHANGED << cfgVars, now, prodVars, LogChannel, wpc, cur, cacheVars, console,
                  closeVars, histVars >>

\* the cleanup goroutine receives a tick and calls cleanupUnusedFileHandles,
\* which takes the lock
RLock ==
  /\ tasks.reclaimers >= 1
  /\ rpc = "wait"
  /\ tickC
  /\ fileMutex = ""
  /\ tickC' = FALSE
  /\ fileMutex' = "reclaimer"
  /\ rpc' = "body"
  /\ UNCHANGED << cfgVars, now, prodVars, LogChannel, wpc, cur, cacheVars, console,
                  closeVars, histVars >>

\* mutant of Unused: an entry exactly at the threshold is reclaimed too
Unused_AtThreshold(times, handles, t) ==
  {f \in DOMAIN times :
     times[f] <= t - DefaultUnusedFileHandleThreshold /\ f \in DOMAIN handles}

\* the entries cleanupUnusedFileHandles closes and deletes at time t
Unused(times, handles, t) ==
  {f \in DOMAIN times :
     times[f] < t - DefaultUnusedFileHandleThreshold /\ f \in DOMAIN handles}

\* mutant of RBody: the pass closes the idle handles and leaves their entries
RBody_KeepEntries ==
  /\ rpc = "body"
  /\ LET gone == Unused(fileAccessTimes, fileHandles, now)
     IN  /\ files' = [h \in DOMAIN files |->
                        IF \E f \in gone : fileHandles[f] = h
                        THEN CloseFile(files, h)[h] ELSE files[h]]
         /\ reclaimed' = reclaimed \cup gone
  /\ fileMutex' = ""
  /\ rpc' = "wait"
  /\ UNCHANGED << cfgVars, now, tickC, prodVars, LogChannel, wpc, cur, disk, faults,
                  console, closeVars, enqLog, deqLog, fileCalls, writeLog,
                  fileHandles, fileAccessTimes >>

\* cleanupUnusedFileHandles: the pass over fileAccessTimes, and the unlock
RBody ==
  /\ rpc = "body"
  /\ LET gone == Unused(fileAccessTimes, fileHandles, now)
     IN  /\ files' = [h \in DOMAIN files |->
                        IF \E f \in gone : fileHandles[f] = h
                        THEN CloseFile(files, h)[h] ELSE files[h]]
         /\ fileHandles' = [f \in DOMAIN fileHandles \ gone |-> fileHandles[f]]
         /\ fileAccessTimes' = [f \in DOMAIN fileAccessTimes \ gone |->
                                  fileAccessTimes[f]]
         /\ reclaimed' = reclaimed \cup gone
  /\ fileMutex' = ""
  /\ rpc' = "wait"
  /\ UNCHANGED << cfgVars, now, tickC, prodVars, LogChannel, wpc, cur, disk, faults,
                  console, closeVars, enqLog, deqLog, fileCalls, writeLog >>

\* -------------------------------------------------------------------- Close

\* the application calls Close, which takes the lock
CloseLock ==
  /\ constructed
  /\ cpc = "idle"
  /\ fileMutex = ""
  /\ fileMutex' = "closer"
  /\ cpc' = "body"
  /\ closeSnap' = enqLog
  /\ UNCHANGED << cfgVars, now, tickC, prodVars, LogChannel, wpc, cur, cacheVars,
                  console, rpc, closesDone, histVars >>

\* mutant of CloseBody: Close also throws away what is queued
CloseBody_Discard ==
  /\ cpc = "body"
  /\ files' = [h \in DOMAIN files |->
                 IF \E f \in DOMAIN fileHandles : fileHandles[f] = h
                 THEN CloseFile(files, h)[h] ELSE files[h]]
  /\ fileMutex' = ""
  /\ cpc' = "idle"
  /\ closesDone' = closesDone + 1
  /\ closeSnap' = <<>>
  /\ LogChannel' = <<>>
  /\ UNCHANGED << cfgVars, now, tickC, prodVars, wpc, cur, fileHandles,
                  fileAccessTimes, disk, faults, console, rpc, histVars >>

\* Close: file.Close() on every value of fileHandles, the unlock, the return
CloseBody ==
  /\ cpc = "body"
  /\ files' = [h \in DOMAIN files |->
                 IF \E f \in DOMAIN fileHandles : fileHandles[f] = h
                 THEN CloseFile(files, h)[h] ELSE files[h]]
  /\ fileMutex' = ""
  /\ cpc' = "idle"
  /\ closesDone' = closesDone + 1
  /\ closeSnap' = <<>>
  /\ UNCHANGED << cfgVars, now, tickC, prodVars, LogChannel, wpc, cur, fileHandles,
                  fileAccessTimes, disk, faults, console, rpc, histVars >>

\* ----------------------------------------------------------- specifications

\* log calls made so far
RECURSIVE CallsUpTo(_)
CallsUpTo(n) == IF n = 0 THEN 0 ELSE Len(hist[n]) + CallsUpTo(n - 1)
Calls == CallsUpTo(NumProducers)

\* the steps of the worker but the eviction loop (a step of its own in the
\* specifications whose handle limit can be exceeded); the operating system
\* fails at most maxFaults opens and writes
Worker(maxFaults) ==
  \/ Recv
  \/ WfLock
  \/ \E openOk, writeOk \in BOOLEAN :
       /\ (openOk /\ writeOk) \/ faults < maxFaults
       /\ WfBody(openOk, writeOk)

Reclaimer == RLock \/ RBody

Closer(maxCloses) == (closesDone < maxCloses /\ CloseLock) \/ CloseBody

\* The cache specification: one producer writing at INFO to three paths, the
\* handle limit 1 or 2, with the clock, the reclaimer, Close and failing
\* opens and writes.
CacheOptions ==
  { <<SetBufferSize(b), SetMaxFileHandles(m)>> : b \in {MaxOption}, m \in 0..MaxOption }

Init == \E opts \in CacheOptions : InitWith(opts)

Next ==
  \/ \E f \in Paths : Calls < MaxCalls /\ Log(1, LogLevelInfo, <<SetLogFile(f)>>)
  \/ Worker(MaxFaults)
  \/ WfEvict
  \/ (now < MaxTime /\ Tick)
  \/ Reclaimer
  \/ Closer(1)

Spec == Init /\ [][Next]_vars

\* The shutdown specification: one producer, the worker and Close called up
\* to MaxCloses times, with the clock and failing opens and writes; the
\* reclaimer is never scheduled.
CloseOptions ==
  { <<SetBufferSize(b), SetMaxFileHandles(m)>> : b \in {MaxOption}, m \in 1..MaxOption }

InitClose == \E opts \in CloseOptions : InitWith(opts)

NextClose ==
  \/ \E f \in Paths : Calls < CloseCalls /\ Log(1, LogLevelInfo, <<SetLogFile(f)>>)
  \/ Worker(MaxFaults)
  \/ WfEvict
  \/ (now < CloseTime /\ Tick)
  \/ Closer(MaxCloses)

SpecClose == InitClose /\ [][NextClose]_vars

\* The routing specification: one producer logging at every level, to the
\* default file, to the empty file name or to b.log, under every pair of
\* thresholds and every setting of the two output toggles; nothing fails.
\* (In this and the pipeline specifications the handle limit is the default,
\* 10, which two paths never exceed: the eviction loop is never entered.)
RouteOptions ==
  { <<SetBufferSize(1), SetFileLevel(fl), SetConsoleLevel(cl), EnableFileOutput(tf),
      EnableConsoleOutput(tc)>> :
      fl \in LogLevel, cl \in LogLevel, tf \in BOOLEAN, tc \in BOOLEAN }

RouteLogOptions == {<<>>, <<SetLogFile("")>>, <<SetLogFile("b.log")>>}

InitRoute == \E opts \in RouteOptions : InitWith(opts)

NextRoute ==
  \/ \E lv \in LogLevel, o \in RouteLogOptions : Calls < RouteCalls /\ Log(1, lv, o)
  \/ Worker(0)

SpecRoute == InitRoute /\ [][NextRoute]_vars

\* The pipeline specification: NumProducers producers logging at DEBUG
\* (console only) and INFO to two files through a buffer of 1..MaxOption
\* slots, with failing opens and writes.
PipeOptions == { <<SetBufferSize(b)>> : b \in 1..MaxOption }

PipeLogOptions == {<<>>, <<SetLogFile("b.log")>>}

InitPipe == \E opts \in PipeOptions : InitWith(opts)

NextPipe ==
  \/ \E p \in Producers, lv \in {LogLevelDebug, LogLevelInfo}, o \in PipeLogOptions :
       Calls < PipeCalls /\ Log(p, lv, o)
  \/ Worker(MaxFaults)

SpecPipe == InitPipe /\ [][NextPipe]_vars

\* The same pipeline under a fair scheduler: the worker goroutine, once it
\* can take a step, is eventually run.  Nothing fails.
NextLive ==
  \/ \E p \in Producers, o \in PipeLogOptions :
       Calls < LiveCalls /\ Log(p, LogLevelInfo, o)
  \/ Worker(0)

SpecLive == InitPipe /\ [][NextLive]_vars /\ WF_vars(Worker(0))

\* The construction specification: NewLogger called with a buffer size and a
\* handle limit, valid or not, in either order; then one producer, the
\* worker, the clock and the reclaimer.
NewOptions ==
  UNION { { <<SetBufferSize(b), SetMaxFileHandles(m)>>,
            <<SetMaxFileHandles(m), SetBufferSize(b)>> } :
          b \in (-1)..MaxOption, m \in (-1)..MaxOption }

InitNew == \E opts \in NewOptions : InitWith(opts)

NextNew ==
  \/ (Calls < NewCalls /\ Log(1, LogLevelInfo, <<>>))
  \/ Worker(0)
  \/ (now < MaxTime /\ Tick)
  \/ Reclaimer

SpecNew == InitNew /\ [][NextNew]_vars

\* The lifecycle specification: one producer, then Close, with the worker, the
\* clock and the reclaimer, under a fair scheduler: a goroutine that can take
\* a step is eventually run, the clock advances, Close is called.  Nothing
\* fails.
NextStop ==
  \/ (Calls < StopCalls /\ Log(1, LogLevelInfo, <<>>))
  \/ Worker(0)
  \/ (now < MaxTime /\ Tick)
  \/ Reclaimer
  \/ Closer(1)

SpecStop ==
  /\ InitClose /\ [][NextStop]_vars
  /\ WF_vars(Worker(0)) /\ WF_vars(Reclaimer) /\ WF_vars(Closer(1))
  /\ WF_vars(now < MaxTime /\ Tick)

\* --------------------------------------------------------------- properties

\* the lines of file f ("no lines" when it does not exist)
Lines(f) == IF f \in DOMAIN disk THEN disk[f] ELSE <<>>

\* the elements of a sequence
Range(s) == {s[i] : i \in DOMAIN s}

\* how often x occurs in sequence s
Count(s, x) == Cardinality({i \in DOMAIN s : s[i] = x})

\* the ids of the messages in the channel's buffer, in order
ChanIds == [i \in DOMAIN LogChannel |-> LogChannel[i].id]

\* the log call that made event id
CallOf(id) == hist[id[1]][id[2]]

\* the file an event of call c is written to
DestOf(c) == IF c.file = "" THEN l.DefaultFileName ELSE c.file

\* C1: whenever the worker is outside writeFile (every writeFile call has
\* returned), the handle cache holds at most maxFileHandles entries.
C1_CapacityAfterWrite ==
  (constructed /\ fileMutex # "worker")
    => Cardinality(DOMAIN fileHandles) <= l.maxFileHandles

\* the writes so far all succeeded, went to distinct paths at strictly
\* increasing times, and nothing but the worker has touched the cache
OnlyFreshWrites ==
  /\ wpc = "recv" /\ LogChannel = <<>> /\ sendq = <<>>
  /\ closesDone = 0 /\ cpc = "idle" /\ rpc = "wait" /\ reclaimed = {}
  /\ faults = 0
  /\ \A i \in DOMAIN writeLog : writeLog[i].ok
  /\ \A i, j \in DOMAIN writeLog :
       i < j => writeLog[i].file # writeLog[j].file /\ writeLog[i].at < writeLog[j].at
  /\ writeLog # <<>> => now - writeLog[1].at <= DefaultUnusedFileHandleThreshold

\* C2: after successful writes to k > maxFileHandles distinct paths, each at
\* a strictly later time, the cached paths are exactly the maxFileHandles
\* most recently written ones (limit 2, writes A, B, C: the cache is {B, C}).
C2_LRUContents ==
  (OnlyFreshWrites /\ Len(writeLog) > l.maxFileHandles)
    => DOMAIN fileHandles =
         {writeLog[i].file : i \in (Len(writeLog) - l.maxFileHandles + 1)..Len(writeLog)}

\* a reclamation pass is the step from rpc = "body" to rpc = "wait"
ReclaimPassOK ==
  (rpc = "body" /\ rpc' = "wait") =>
    LET old == {f \in DOMAIN fileAccessTimes :
                  now - fileAccessTimes[f] > DefaultUnusedFileHandleThreshold}
    IN  /\ DOMAIN fileHandles' = DOMAIN fileHandles \ old
        /\ DOMAIN fileAccessTimes' = DOMAIN fileAccessTimes \ old
        /\ \A f \in DOMAIN fileHandles' :
             /\ fileHandles'[f] = fileHandles[f]
             /\ fileAccessTimes'[f] = fileAccessTimes[f]
             /\ fileHandles[f] # Nil => files'[fileHandles[f]] = files[fileHandles[f]]
        /\ \A f \in old \cap DOMAIN fileHandles :
             fileHandles[f] # Nil => files'[fileHandles[f]].closed
        /\ disk' = disk

\* the write that follows the reclamation of its path: the step that ends
\* writeFile for a path in reclaimed
RewriteOK ==
  (wpc = "wf_body" /\ wpc' = "recv" /\ cur.File \in reclaimed) =>
    LET f == cur.File
    IN  \/ /\ faults' = faults + 1
           /\ UNCHANGED << fileHandles, fileAccessTimes, files, disk >>
        \/ /\ Len(files') = Len(files) + 1
           /\ files'[Len(files')].path = f
           /\ "O_APPEND" \in files'[Len(files')].flags
           /\ ~files'[Len(files')].closed
           /\ f \in DOMAIN fileHandles' /\ f \in DOMAIN fileAccessTimes'
           /\ fileAccessTimes'[f] = now
           /\ f \in DOMAIN disk'
           /\ IF fileHandles'[f] # Nil
              THEN /\ fileHandles'[f] = Len(files')
                   /\ disk'[f] = Append(Lines(f), cur.FileMessage)
              ELSE /\ disk'[f] = Lines(f)
                   /\ faults' = faults + 1

\* C9: a reclamation pass closes and removes exactly the entries idle for
\* more than the threshold and leaves the others unchanged; the next write to
\* a reclaimed path re-opens it in append mode, caches it with the current
\* time and appends its line after the earlier content.
C9_IdleReclamation == [][ReclaimPassOK /\ RewriteOK]_vars

\* C9 witness: a path written, reclaimed after its idle time, and written
\* again: two handles, the first closed by the reclaimer, two lines
C9_Witness ==
  /\ closesDone = 0 /\ cpc = "idle" /\ faults = 0
  /\ Len(writeLog) = 2
  /\ writeLog[1].file = writeLog[2].file
  /\ writeLog[2].at - writeLog[1].at > DefaultUnusedFileHandleThreshold
  /\ Len(files) = 2 /\ files[1].closed /\ ~files[2].closed
  /\ Len(Lines(writeLog[1].file)) = 2
  /\ fileHandles[writeLog[1].file] = 2

\* C3: the worker receives the events in the order they entered the channel,
\* the events of one producer enter it in the order of its log calls, and in
\* every file the lines of one producer are in the order of its log calls.
C3_FileOrder ==
  /\ enqLog = deqLog \o ChanIds
  /\ \A i, j \in DOMAIN enqLog :
       (i < j /\ enqLog[i][1] = enqLog[j][1]) => enqLog[i][2] < enqLog[j][2]
  /\ \A f \in DOMAIN disk : \A i, j \in DOMAIN disk[f] :
       (i < j /\ disk[f][i][2] = disk[f][j][2]) => disk[f][i][3] < disk[f][j][3]

\* C3 witness: every call made, and one file holding lines of both producers,
\* two of them of the same producer
C3_Witness ==
  /\ Len(enqLog) = PipeCalls
  /\ \E f \in DOMAIN disk : \E i, j, k \in DOMAIN disk[f] :
       /\ i < j /\ disk[f][i][2] = disk[f][j][2]
       /\ disk[f][k][2] # disk[f][i][2]

\* every event enqueued has been received and handled by the worker, and
\* (when the operating system failed nothing) its line is in its file
AllFlushed ==
  /\ LogChannel = <<>> /\ wpc = "recv"
  /\ \A k \in DOMAIN enqLog : Count(deqLog, enqLog[k]) = 1
  /\ faults = 0 =>
       \A k \in DOMAIN enqLog :
         Count(Lines(DestOf(CallOf(enqLog[k]))),
               prepareFileMessage(enqLog[k])) = 1

\* Close returns in this step
CloseReturns == cpc = "body" /\ cpc' = "idle"

C5_ClosePostcondition ==
  [][CloseReturns =>
       /\ \A h \in DOMAIN files' : files'[h].closed
       /\ DOMAIN fileHandles' = {}
       /\ DOMAIN fileAccessTimes' = {}]_vars

\* C6 as claimed: Close is never called more than once on a handle.
C6_CloseOncePerHandle == \A h \in DOMAIN files : files[h].closeCalls <= 1

\* how often event id has entered the channel or is carried by a blocked send
Queued(id) ==
  Count(enqLog, id)
    + Cardinality({p \in Producers : pc[p] = "blocked" /\ pending[p].id = id})

\* C7: the channel never holds more than bufferSize messages; a log call that
\* finds it full enqueues nothing and blocks; it returns in the step in which
\* the worker receives a message, which puts its event into the channel, once;
\* no accepted event is dropped; and a blocked call eventually returns.
C7_Backpressure ==
  /\ [](Len(LogChannel) <= l.bufferSize)
  /\ [](\A p \in Producers : \A i \in DOMAIN hist[p] : Queued(<<p, i>>) = 1)
  /\ [][\A p \in Producers :
          /\ (pc[p] = "idle" /\ pc'[p] = "blocked") =>
               /\ Len(LogChannel) = l.bufferSize
               /\ LogChannel' = LogChannel /\ enqLog' = enqLog
          /\ (pc[p] = "blocked" /\ pc'[p] = "blocked") =>
               /\ pending'[p] = pending[p]
               /\ Count(enqLog', pending[p].id) = 0
          /\ (pc[p] = "blocked" /\ pc'[p] = "idle") =>
               /\ Len(deqLog') = Len(deqLog) + 1
               /\ LogChannel' = Append(Tail(LogChannel), pending[p])
               /\ Count(enqLog', pending[p].id) = 1]_vars
  /\ \A p \in Producers : (pc[p] = "blocked") ~> (pc[p] = "idle")

\* C7 witness: the channel full and every producer blocked in its send
C7_Witness ==
  /\ Len(LogChannel) = l.bufferSize
  /\ \A p \in Producers : pc[p] = "blocked"
  /\ Len(sendq) = NumProducers

\* the lines of event id anywhere on disk or on the console
Outputs(id) ==
  Count(console, prepareConsoleMessage(id))
    + Cardinality({f \in DOMAIN disk : Count(disk[f], prepareFileMessage(id)) > 0})

\* C8: a log call below both thresholds adds nothing to the channel and
\* nothing to any file or the console; every other call adds its event to the
\* channel exactly once (or is blocked carrying it).
C8_FastReject ==
  \A p \in Producers : \A i \in DOMAIN hist[p] :
    IF hist[p][i].level < l.FileLevel /\ hist[p][i].level < l.ConsoleLevel
    THEN Queued(<<p, i>>) = 0 /\ Outputs(<<p, i>>) = 0
    ELSE Queued(<<p, i>>) = 1

\* C8 witness: with file output disabled, a call below both thresholds and a
\* call between the two thresholds; only the second is in the channel
C8_Witness ==
  /\ ~l.OutputToFile
  /\ l.ConsoleLevel < l.FileLevel
  /\ Len(hist[1]) = 2
  /\ hist[1][1].level < l.ConsoleLevel
  /\ hist[1][2].level >= l.ConsoleLevel /\ hist[1][2].level < l.FileLevel
  /\ enqLog = << <<1, 2>> >>

\* C10: for every event the worker received, it called writeFile iff file
\* output is enabled and the level is at or above the file threshold, and,
\* once it is done with the event, the console holds one line of it iff
\* console output is enabled and the level is at or above the console
\* threshold (no line otherwise), and its destination file one line iff
\* writeFile was called (no other file any).
C10_SinkRouting ==
  \A k \in DOMAIN deqLog :
    LET id == deqLog[k]
        c == CallOf(id)
        file == l.OutputToFile /\ c.level >= l.FileLevel
        cons == l.OutputToConsole /\ c.level >= l.ConsoleLevel
    IN  /\ id \in fileCalls <=> file
        /\ cur.id # id =>
             /\ Count(console, prepareConsoleMessage(id)) = IF cons THEN 1 ELSE 0
             /\ \A f \in Paths :
                  Count(Lines(f), prepareFileMessage(id)) =
                    IF file /\ f = DestOf(c) THEN 1 ELSE 0

\* C10 witness: file threshold INFO, console threshold DEBUG, both outputs
\* on; Debug then Info to the default file: two console lines, one file line
C10_Witness ==
  /\ l.FileLevel = LogLevelInfo /\ l.ConsoleLevel = LogLevelDebug
  /\ l.OutputToFile /\ l.OutputToConsole
  /\ Len(hist[1]) = 2
  /\ hist[1][1] = [level |-> LogLevelDebug, file |-> l.DefaultFileName]
  /\ hist[1][2] = [level |-> LogLevelInfo, file |-> l.DefaultFileName]
  /\ console = << prepareConsoleMessage(<<1, 1>>), prepareConsoleMessage(<<1, 2>>) >>
  /\ Lines(l.DefaultFileName) = << prepareFileMessage(<<1, 2>>) >>

\* the worker ends a writeFile call in this step
WriteReturns == wpc = "wf_body" /\ wpc' = "recv"

\* the last element of a non-empty sequence
Last(s) == s[Len(s)]

\* C11: a write that fails (the handle was cached or just opened, the append
\* failed) stops nobody: the worker goes on to its next receive, no producer
\* and no queue content is touched, no line is added, and the cache entry of
\* the path becomes nil; a write that finds the nil entry opens a new handle,
\* caches it and appends through it.
C11_WriteFailureHeals ==
  [][WriteReturns =>
       LET f == cur.File
           attempted == Cached(fileHandles, f) \/ Len(files') = Len(files) + 1
       IN  /\ (attempted /\ ~Last(writeLog').ok) =>
                 /\ f \in DOMAIN fileHandles' /\ fileHandles'[f] = Nil
                 /\ f \in DOMAIN disk' /\ disk'[f] = Lines(f)
                 /\ tasks' = tasks /\ wpc' = "recv"
                 /\ pc' = pc /\ pending' = pending /\ LogChannel' = LogChannel
           /\ (f \in DOMAIN fileHandles /\ fileHandles[f] = Nil /\ faults' = faults) =>
                 /\ Len(files') = Len(files) + 1
                 /\ fileHandles'[f] = Len(files')
                 /\ files'[Len(files')].path = f /\ ~files'[Len(files')].closed
                 /\ disk'[f] = Append(Lines(f), cur.FileMessage)]_vars

\* C11 witness: a write to a path failed and the next write to the same path
\* went through a second handle, which is the one cached
C11_Witness ==
  /\ closesDone = 0 /\ cpc = "idle" /\ reclaimed = {}
  /\ Len(writeLog) = 2
  /\ writeLog[1].file = writeLog[2].file
  /\ ~writeLog[1].ok /\ writeLog[2].ok
  /\ Len(files) = 2
  /\ fileHandles[writeLog[1].file] = 2
  /\ Len(Lines(writeLog[1].file)) = 1

\* an option NewLogger rejects
Invalid(o) == o.opt \in {"SetBufferSize", "SetMaxFileHandles"} /\ o.arg <= 0

\* C12: when an option is invalid NewLogger returns an error, no worker and
\* no reclaimer has been started and none ever runs; otherwise it returns a
\* logger with exactly one worker and one reclaimer.
C12_ConstructionErrors ==
  IF \E i \in DOMAIN options : Invalid(options[i])
  THEN /\ ~constructed
       /\ tasks.workers = 0 /\ tasks.reclaimers = 0
       /\ wpc = "recv" /\ rpc = "wait" /\ deqLog = <<>> /\ ~tickC
  ELSE /\ constructed
       /\ tasks.workers = 1 /\ tasks.reclaimers = 1

\* C12 witness: the first option valid, the second invalid: no logger, no task
C12_Witness ==
  /\ Len(options) = 2
  /\ ~Invalid(options[1]) /\ Invalid(options[2])
  /\ ~constructed
  /\ tasks.workers = 0 /\ tasks.reclaimers = 0

\* Close has not been called and the operating system has failed nothing
NoCloseNoFault == closesDone = 0 /\ cpc = "idle" /\ faults = 0

\* C13: before Close and without I/O failures, every event the worker has
\* finished with and that went to the file sink has its line, once, in its
\* destination file; while the reclaimer is in its pass the worker is not
\* between taking the lock and its append; and no cache entry refers to a
\* closed handle.
C13_ReclaimLosesNothing ==
  /\ NoCloseNoFault =>
        \A k \in DOMAIN deqLog :
          (deqLog[k] \in fileCalls /\ cur.id # deqLog[k]) =>
            Count(Lines(DestOf(CallOf(deqLog[k]))), prepareFileMessage(deqLog[k])) = 1
  /\ rpc = "body" => wpc \notin {"wf_evict", "wf_body"}
  /\ (closesDone = 0 /\ cpc = "idle") =>
        \A f \in DOMAIN fileHandles :
          fileHandles[f] # Nil => ~files[fileHandles[f]].closed

\* C13 witness: a path written, its handle closed by the reclaimer, the path
\* written again while another path stays cached: every line is on disk
C13_Witness ==
  /\ NoCloseNoFault
  /\ wpc = "recv"
  /\ Len(deqLog) = MaxCalls
  /\ \E f \in DOMAIN disk : Len(disk[f]) = 2
  /\ \E h \in DOMAIN files : files[h].closed
  /\ Cardinality(DOMAIN fileHandles) = 2
  /\ l.maxFileHandles = 2

\* C14: the lock is held by the worker exactly while it is inside writeFile
\* past Lock (eviction included), by the reclaimer exactly while it is in its
\* pass, by the caller of Close exactly while it is in Close, so at most one
\* of them is in its critical section and each has released the lock when it
\* is out; the two maps and the handles change only in a step of the holder;
\* the lock is taken only when it is free; writeFile releases it when it
\* returns, after an open failure too.
C14_MutualExclusion ==
  /\ []((fileMutex = "worker" <=> wpc \in {"wf_evict", "wf_body"})
        /\ (fileMutex = "reclaimer" <=> rpc = "body")
        /\ (fileMutex = "closer" <=> cpc = "body")
        /\ fileMutex \in {"", "worker", "reclaimer", "closer"})
  /\ [][/\ (fileHandles' # fileHandles \/ fileAccessTimes' # fileAccessTimes
             \/ files' # files) => fileMutex # ""
        /\ (fileMutex' # fileMutex) => (fileMutex = "" \/ fileMutex' = "")
        /\ WriteReturns => fileMutex' = ""]_vars

\* C14 witness: an open failed and writeFile returned early; the reclaimer
\* holds the lock after it and the worker waits for it with the next message
C14_Witness ==
  /\ writeLog # <<>> /\ ~Last(writeLog).ok /\ files = <<>>
  /\ fileMutex = "reclaimer" /\ rpc = "body"
  /\ wpc = "wf_lock"

Evicts == wpc = "wf_evict" /\ DOMAIN fileHandles' # DOMAIN fileHandles

\* C16: every entry the capacity eviction removes is one whose timestamp is
\* least among all entries of the cache at that moment, one entry per step,
\* and its handle is closed; a write that reaches the append stamps its path
\* with the current time, which no other entry's timestamp exceeds.
C16_EvictsLeastRecent ==
  [][/\ Evicts =>
          \E f \in DOMAIN fileHandles :
            /\ DOMAIN fileHandles' = DOMAIN fileHandles \ {f}
            /\ DOMAIN fileAccessTimes' = DOMAIN fileAccessTimes \ {f}
            /\ \A g \in DOMAIN fileAccessTimes :
                 fileAccessTimes[f] <= fileAccessTimes[g]
            /\ \A g \in DOMAIN fileAccessTimes' :
                 fileAccessTimes'[g] >= fileAccessTimes[f]
            /\ fileHandles[f] # Nil => files'[fileHandles[f]].closed
     /\ (WriteReturns
           /\ (Cached(fileHandles, cur.File) \/ Len(files') = Len(files) + 1)) =>
          /\ fileAccessTimes'[cur.File] = now
          /\ \A g \in DOMAIN fileAccessTimes' :
               fileAccessTimes'[g] <= fileAccessTimes'[cur.File]]_vars

\* C16 witness: three paths written at three times under the limit 1; the
\* eviction of the third write closed the handle of the first
C16_Witness ==
  /\ NoCloseNoFault /\ reclaimed = {}
  /\ l.maxFileHandles = 1
  /\ Len(writeLog) = 3
  /\ writeLog[1].at < writeLog[2].at /\ writeLog[2].at < writeLog[3].at
  /\ files[1].closed /\ ~files[2].closed
  /\ DOMAIN fileHandles = {writeLog[2].file, writeLog[3].file}

\* C17 as claimed: the entry an eviction step removes is determined by the
\* cache (paths, timestamps) and the current time: there is one candidate.
C17_DeterministicVictim ==
  wpc = "wf_evict" => Cardinality(OldestFiles(fileAccessTimes, now)) = 1

\* C18 as claimed: once Close has returned and the producer has made its last
\* call, the worker and the reclaimer eventually stop: no goroutine of the
\* logger is left.
C18_TasksStop ==
  (closesDone >= 1 /\ Calls = StopCalls /\ \A p \in Producers : pc[p] = "idle")
    ~> (tasks.workers = 0 /\ tasks.reclaimers = 0)

\* C19: outside the critical sections the handle map and the access-time map
\* have the same keys.
C19_SameKeys ==
  fileMutex = "" => DOMAIN fileHandles = DOMAIN fileAccessTimes

\* C19 witness: after a failed write and a Close that closed a handle, two
\* paths are in both maps, one of them with the nil handle
C19_Witness ==
  /\ fileMutex = ""
  /\ closesDone = 1 /\ faults = 1
  /\ \E h \in DOMAIN files : files[h].closed /\ files[h].closeCalls = 1
  /\ Cardinality(DOMAIN fileHandles) = 2
  /\ DOMAIN fileHandles = DOMAIN fileAccessTimes
  /\ \E f \in DOMAIN fileHandles : fileHandles[f] = Nil

\* C20 as claimed: outside the critical sections every handle that is open
\* is the cache entry of its path (so a path has at most one open handle).
C20_NoHandleLeak ==
  fileMutex = "" =>
    \A h \in DOMAIN files :
      ~files[h].closed =>
        /\ files[h].path \in DOMAIN fileHandles
        /\ fileHandles[files[h].path] = h

\* C21: in every state of a constructed logger, inside the critical sections
\* too, the handle map has at most maxFileHandles + 1 keys.
C21_AtMostLimitPlusOne ==
  constructed => Cardinality(DOMAIN fileHandles) <= l.maxFileHandles + 1

\* C21 witness: three paths written under the limit 1, with no reclamation,
\* no Close and no failure: the third write evicted one entry and added its
\* own, and the cache holds limit + 1 entries
C21_Witness ==
  /\ fileMutex = "" /\ wpc = "recv"
  /\ NoCloseNoFault /\ reclaimed = {}
  /\ l.maxFileHandles = 1
  /\ Len(writeLog) = 3
  /\ Cardinality({writeLog[i].file : i \in DOMAIN writeLog}) = 3
  /\ \E h \in DOMAIN files : files[h].closed
  /\ Cardinality(DOMAIN fileHandles) = l.maxFileHandles + 1

====
